---- MODULE Spec2Model ----
(***************************************************************************)
(* Model of crates/rolldown/src/ecmascript/ecma_module_view_factory.rs:    *)
(* create_ecma_view, the construction of one module's EcmaView from the    *)
(* parse result, the scan result and the side-effects signals.             *)
(*                                                                         *)
(* Paths are sequences of segments of an absolute path (<<>> is the root). *)
(* An Option is a sequence of length 0 (None) or 1 (Some).                 *)
(***************************************************************************)
EXTENDS Naturals, Sequences, FiniteSets

VARIABLES
  pc,            \* position inside create_ecma_view
  ctx,           \* CreateModuleContext: module_type, resolved_id, options, warnings
  args,          \* CreateModuleViewArgs: hook_side_effects
  parse_result,  \* ParseToEcmaAstResult (its warning list) once parsed
  scan_result,   \* ScanResult once scanned
  side_effects,  \* Option of [value, lazy_called, glob_checked, stmts_analyzed]
  result,        \* what create_ecma_view returned
  warnings0      \* history: the caller's warning sink when the call started

vars == <<pc, ctx, args, parse_result, scan_result, side_effects, result, warnings0>>

----------------------------------------------------------------------------
(* Bounds of the model *)

MaxWarnings == 1
MaxErrors == 1
MaxStmts == 2

----------------------------------------------------------------------------
(* Values *)

SeqsUpTo(S, n) == UNION {[1..k -> S] : k \in 0..n}

None == <<>>
Some(x) == <<x>>

UserDefined(b) == [tag |-> "UserDefined", value |-> b]
Analyzed(b) == [tag |-> "Analyzed", value |-> b]
NoTreeshake == [tag |-> "NoTreeshake", value |-> FALSE]
Unreachable == [tag |-> "Unreachable", value |-> FALSE]

ModuleTypes == {"Js", "Css"}

HookSideEffects == {"True", "False", "NoTreeshake"}

ModuleIds == {<<"pkg", "foo.js">>, <<"other", "foo.js">>}

Cwd == <<"pkg">>

\* the paths a per-module predicate or a manifest's side-effects list may name
NamedPaths == {<<"foo.js">>, <<"pkg", "foo.js">>}

TreeshakeBoolean(b) == [kind |-> "Boolean", value |-> b, module_side_effects |-> {}]
TreeshakeOption(s) == [kind |-> "Option", value |-> TRUE, module_side_effects |-> s]

TreeshakeOptions ==
  {TreeshakeBoolean(b) : b \in BOOLEAN} \cup {TreeshakeOption(s) : s \in SUBSET NamedPaths}

\* the "sideEffects" field of a package manifest: absent, a boolean, or a list
ManifestSideEffects ==
  {[kind |-> "Absent", value |-> FALSE, files |-> {}]}
    \cup {[kind |-> "Bool", value |-> b, files |-> {}] : b \in BOOLEAN}
    \cup {[kind |-> "Array", value |-> FALSE, files |-> s] : s \in SUBSET NamedPaths}

\* manifests of the package directory /pkg, and one whose path has no parent
PackageJsons ==
  [path : {<<"pkg", "package.json">>}, side_effects : ManifestSideEffects]
    \cup {[path |-> <<>>, side_effects |-> [kind |-> "Bool", value |-> FALSE, files |-> {}]]}

InitialWarnings == {<<>>, <<"old">>}

StmtInfos == SeqsUpTo([side_effect : BOOLEAN], MaxStmts)

----------------------------------------------------------------------------
(* Helpers that live outside this file *)

\* Path::parent: the root has no parent
Parent(p) == IF Len(p) = 0 THEN None ELSE Some(SubSeq(p, 1, Len(p) - 1))

RECURSIVE CommonPrefixLen(_, _)
CommonPrefixLen(p, q) ==
  IF Len(p) = 0 \/ Len(q) = 0 \/ Head(p) # Head(q) THEN 0
  ELSE 1 + CommonPrefixLen(Tail(p), Tail(q))

\* SugarPath::relative: the path of p as seen from the directory base
Relative(p, base) ==
  LET k == CommonPrefixLen(p, base)
  IN [i \in 1..(Len(base) - k) |-> ".."] \o SubSeq(p, k + 1, Len(p))

\* ModuleId::stabilize: an absolute id made relative to the working directory
Stabilize(id, cwd) == Relative(id, cwd)

\* PackageJson::check_side_effects_for on a manifest-relative path
CheckSideEffectsFor(p, rel) ==
  CASE p.side_effects.kind = "Absent" -> None
    [] p.side_effects.kind = "Bool" -> Some(p.side_effects.value)
    [] OTHER -> Some(rel \in p.side_effects.files)

\* ModuleSideEffects::resolve on a stabilized id
ResolveModuleSideEffects(opt, stable_id) == stable_id \in opt.module_side_effects

----------------------------------------------------------------------------
(* The side-effects resolver, create_ecma_view lines 116-161.  Next to the  *)
(* verdict each operator reports which of the lower layers it evaluated.    *)

\* faulty variant: all() in place of any()
AnalyzedSideEffectsAll(stmt_infos) ==
  \A i \in 1..Len(stmt_infos) : stmt_infos[i].side_effect

\* stmt_infos.iter().any(|stmt_info| stmt_info.side_effect)
AnalyzedSideEffects(stmt_infos) ==
  \E i \in 1..Len(stmt_infos) : stmt_infos[i].side_effect

\* faulty variant: the module path is handed to the glob test as it is
ModulePathNotRelative(id, p) ==
  IF Len(Parent(p.path)) = 0 THEN None
  ELSE Some(id)

\* id.as_path().relative(p.path.parent()?)
ModulePathRelativeToPackage(id, p) ==
  IF Len(Parent(p.path)) = 0 THEN None
  ELSE Some(Relative(id, Parent(p.path)[1]))

\* package_json.as_ref().and_then(|p| ... .map(DeterminedSideEffects::UserDefined))
PackageJsonSideEffects(package_json, id) ==
  IF Len(package_json) = 0 THEN None
  ELSE LET p == package_json[1]
           rel == ModulePathRelativeToPackage(id, p)
       IN IF Len(rel) = 0 THEN None
          ELSE LET answer == CheckSideEffectsFor(p, rel[1])
               IN IF Len(answer) = 0 THEN None ELSE Some(UserDefined(answer[1]))

\* whether the closure of and_then gets as far as calling check_side_effects_for
GlobChecked(package_json, id) ==
  /\ Len(package_json) = 1
  /\ Len(ModulePathRelativeToPackage(id, package_json[1])) = 1

\* faulty variant: no module-type test in front of the manifest and the statements
LazyCheckNoTypeOverride(module_type, package_json, id, stmt_infos) ==
  LET user == PackageJsonSideEffects(package_json, id)
  IN IF Len(user) = 1
     THEN [value |-> user[1], lazy_called |-> TRUE,
           glob_checked |-> TRUE, stmts_analyzed |-> FALSE]
     ELSE [value |-> Analyzed(AnalyzedSideEffects(stmt_infos)), lazy_called |-> TRUE,
           glob_checked |-> GlobChecked(package_json, id), stmts_analyzed |-> TRUE]

\* the closure lazy_check_side_effects
LazyCheckSideEffects(module_type, package_json, id, stmt_infos) ==
  IF module_type = "Css"
  THEN [value |-> Analyzed(TRUE), lazy_called |-> TRUE,
        glob_checked |-> FALSE, stmts_analyzed |-> FALSE]
  ELSE LET user == PackageJsonSideEffects(package_json, id)
       IN IF Len(user) = 1
          THEN [value |-> user[1], lazy_called |-> TRUE,
                glob_checked |-> TRUE, stmts_analyzed |-> FALSE]
          ELSE [value |-> Analyzed(AnalyzedSideEffects(stmt_infos)), lazy_called |-> TRUE,
                glob_checked |-> GlobChecked(package_json, id), stmts_analyzed |-> TRUE]

\* a verdict committed without calling lazy_check_side_effects
Committed(v) ==
  [value |-> v, lazy_called |-> FALSE, glob_checked |-> FALSE, stmts_analyzed |-> FALSE]

\* faulty variant: the verdict False goes through the lower layers as True does
HookArmFalseRefined(hook, lazy) ==
  CASE hook = "True" -> lazy
    [] hook = "False" -> lazy
    [] OTHER -> Committed(NoTreeshake)

\* the arm Some(side_effects) of match args.hook_side_effects
HookArm(hook, lazy) ==
  CASE hook = "True" -> lazy
    [] hook = "False" -> Committed(UserDefined(FALSE))
    [] OTHER -> Committed(NoTreeshake)

\* faulty variant: a disabled policy falls through to the lower layers
TreeshakeArmNoOverride(treeshake, stable_id, lazy) ==
  CASE treeshake.kind = "Boolean" /\ ~treeshake.value -> lazy
    [] treeshake.kind = "Boolean" /\ treeshake.value -> Committed(Unreachable)
    [] OTHER -> IF ResolveModuleSideEffects(treeshake, stable_id)
                THEN lazy
                ELSE Committed(UserDefined(FALSE))

\* faulty variant: the predicate's answer is ignored and the lower layers always run
TreeshakeArmMerged(treeshake, stable_id, lazy) ==
  CASE treeshake.kind = "Boolean" /\ ~treeshake.value -> Committed(NoTreeshake)
    [] treeshake.kind = "Boolean" /\ treeshake.value -> Committed(Unreachable)
    [] OTHER -> lazy

\* the arm None: the fallback on ctx.options.treeshake
TreeshakeArm(treeshake, stable_id, lazy) ==
  CASE treeshake.kind = "Boolean" /\ ~treeshake.value -> Committed(NoTreeshake)
    [] treeshake.kind = "Boolean" /\ treeshake.value -> Committed(Unreachable)
    [] OTHER -> IF ResolveModuleSideEffects(treeshake, stable_id)
                THEN lazy
                ELSE Committed(UserDefined(FALSE))

\* let side_effects = match args.hook_side_effects { ... }
DetermineSideEffects(hook_side_effects, treeshake, stable_id, lazy) ==
  IF Len(hook_side_effects) = 1
  THEN HookArm(hook_side_effects[1], lazy)
  ELSE TreeshakeArm(treeshake, stable_id, lazy)

----------------------------------------------------------------------------
(* create_ecma_view *)

NoResult == [kind |-> "None", errors |-> <<>>, ret |-> <<>>]
Err(errors) == [kind |-> "Err", errors |-> errors, ret |-> <<>>]
Ok(ret) == [kind |-> "Ok", errors |-> <<>>, ret |-> <<ret>>]
Panic == [kind |-> "Panic", errors |-> <<>>, ret |-> <<>>]

NoParse == [ok |-> FALSE, err |-> <<>>, warning |-> <<>>]
NoScan == [ok |-> FALSE, err |-> <<>>, errors |-> <<>>, warnings |-> <<>>, stmt_infos |-> <<>>]

Init ==
  /\ pc = "start"
  /\ ctx \in [module_type : ModuleTypes,
              resolved_id : [id : ModuleIds,
                             package_json : {None} \cup {Some(p) : p \in PackageJsons}],
              options : [cwd : {Cwd}, treeshake : TreeshakeOptions],
              warnings : InitialWarnings]
  /\ args \in [hook_side_effects : {None} \cup {Some(h) : h \in HookSideEffects}]
  /\ parse_result = NoParse
  /\ scan_result = NoScan
  /\ side_effects = None
  /\ result = NoResult
  /\ warnings0 = ctx.warnings

\* parse_to_ecma_ast(...)? and ctx.warnings.extend(warning)
Parse ==
  /\ pc = "start"
  /\ \E failed \in BOOLEAN, warning \in SeqsUpTo({"fw"}, MaxWarnings) :
       IF failed
       THEN /\ warning = <<>>
            /\ parse_result' = [ok |-> FALSE, err |-> <<"parse">>, warning |-> <<>>]
            /\ result' = Err(<<"parse">>)
            /\ pc' = "done"
            /\ UNCHANGED ctx
       ELSE /\ parse_result' = [ok |-> TRUE, err |-> <<>>, warning |-> warning]
            /\ ctx' = [ctx EXCEPT !.warnings = @ \o warning]
            /\ pc' = "parsed"
            /\ UNCHANGED result
  /\ UNCHANGED <<args, scan_result, side_effects, warnings0>>

\* scan_ast(...)?: the scanner fails, or hands back a ScanResult
ScanAst ==
  /\ pc = "parsed"
  /\ \E failed \in BOOLEAN,
        errors \in SeqsUpTo({"e"}, MaxErrors),
        warnings \in SeqsUpTo({"sw"}, MaxWarnings),
        stmt_infos \in StmtInfos :
       IF failed
       THEN /\ errors = <<>> /\ warnings = <<>> /\ stmt_infos = <<>>
            /\ scan_result' = [NoScan EXCEPT !.err = <<"scan">>]
            /\ result' = Err(<<"scan">>)
            /\ pc' = "done"
       ELSE /\ scan_result' = [ok |-> TRUE, err |-> <<>>, errors |-> errors,
                               warnings |-> warnings, stmt_infos |-> stmt_infos]
            /\ pc' = "scanned"
            /\ UNCHANGED result
  /\ UNCHANGED <<ctx, args, parse_result, side_effects, warnings0>>

\* faulty variant: scan errors are reported as warnings and construction goes on
CheckErrorsDowngraded ==
  /\ pc = "scanned"
  /\ ctx' = [ctx EXCEPT !.warnings = @ \o scan_result.errors \o scan_result.warnings]
  /\ pc' = "checked"
  /\ UNCHANGED <<args, parse_result, scan_result, side_effects, result, warnings0>>

\* if !errors.is_empty() { return Err(errors.into()) }; ctx.warnings.extend(scan_warnings)
CheckErrors ==
  /\ pc = "scanned"
  /\ IF scan_result.errors # <<>>
     THEN /\ result' = Err(scan_result.errors)
          /\ pc' = "done"
          /\ UNCHANGED ctx
     ELSE /\ ctx' = [ctx EXCEPT !.warnings = @ \o scan_result.warnings]
          /\ pc' = "checked"
          /\ UNCHANGED result
  /\ UNCHANGED <<args, parse_result, scan_result, side_effects, warnings0>>

\* the match on args.hook_side_effects; unreachable!() panics
ResolveSideEffects ==
  /\ pc = "checked"
  /\ LET stable_id == Stabilize(ctx.resolved_id.id, ctx.options.cwd)
         lazy == LazyCheckSideEffects(ctx.module_type, ctx.resolved_id.package_json,
                                      ctx.resolved_id.id, scan_result.stmt_infos)
         se == DetermineSideEffects(args.hook_side_effects, ctx.options.treeshake,
                                    stable_id, lazy)
     IN IF se.value = Unreachable
        THEN result' = Panic /\ pc' = "done" /\ UNCHANGED side_effects
        ELSE side_effects' = Some(se) /\ pc' = "resolved" /\ UNCHANGED result
  /\ UNCHANGED <<ctx, args, parse_result, scan_result, warnings0>>

\* let view = EcmaView { ... }; Ok(CreateEcmaViewReturn { view, ... })
Assemble ==
  /\ pc = "resolved"
  /\ result' = Ok([view |-> [stmt_infos |-> scan_result.stmt_infos,
                             side_effects |-> side_effects[1].value,
                             import_records |-> <<>>,
                             importers |-> <<>>,
                             included |-> FALSE]])
  /\ pc' = "done"
  /\ UNCHANGED <<ctx, args, parse_result, scan_result, side_effects, warnings0>>

Next ==
  \/ Parse
  \/ ScanAst
  \/ CheckErrors
  \/ ResolveSideEffects
  \/ Assemble

Spec == Init /\ [][Next]_vars

----------------------------------------------------------------------------
(* Vocabulary of the properties *)

Resolved == Len(side_effects) = 1
Verdict == side_effects[1].value
Hook == args.hook_side_effects
Treeshake == ctx.options.treeshake
IsCss == ctx.module_type = "Css"
Finished == pc = "done"
ScanSucceeded == parse_result.ok /\ scan_result.ok /\ scan_result.errors = <<>>

\* the answer of the per-module predicate for the stabilized id
PredicateSays(b) ==
  /\ Treeshake.kind = "Option"
  /\ (Relative(ctx.resolved_id.id, ctx.options.cwd) \in Treeshake.module_side_effects) = b

\* the type-override / manifest / static-analysis layers are entered
LowerLayersReached ==
  \/ Hook = Some("True")
  \/ Hook = None /\ PredicateSays(TRUE)

\* what the manifest says about the module path relative to its directory
ManifestAnswer ==
  IF ctx.resolved_id.package_json = None THEN None
  ELSE LET p == ctx.resolved_id.package_json[1]
       IN IF p.path = <<>> THEN None
          ELSE CheckSideEffectsFor(
                 p, Relative(ctx.resolved_id.id, SubSeq(p.path, 1, Len(p.path) - 1)))

SideEffectingStmts ==
  {i \in 1..Len(scan_result.stmt_infos) : scan_result.stmt_infos[i].side_effect}

----------------------------------------------------------------------------
(* C1 *)

\* C1 (as claimed): every stylesheet module gets the verdict Analyzed(true),
\* whatever the hook verdict, the manifest, the global policy and the statements.
C1_TypeOverrideAlways ==
  (Resolved /\ IsCss) => Verdict = Analyzed(TRUE)

\* C1 (amended): a stylesheet module gets the verdict Analyzed(true) whenever the
\* lower layers are entered (hook verdict True, or no hook verdict and the
\* per-module predicate answers true), whatever the manifest and the statement
\* flags say, and neither the glob test nor the statement analysis is evaluated.
C1_TypeOverrideInLowerLayers ==
  (Resolved /\ IsCss /\ LowerLayersReached) =>
    /\ Verdict = Analyzed(TRUE)
    /\ ~side_effects[1].glob_checked
    /\ ~side_effects[1].stmts_analyzed

C1_Witness ==
  /\ Resolved /\ IsCss /\ Hook = Some("True")
  /\ ManifestAnswer = Some(FALSE)
  /\ SideEffectingStmts = {}
  /\ Verdict = Analyzed(TRUE)

----------------------------------------------------------------------------
(* C2 *)

\* C2 (as claimed): with the global tree-shake policy disabled every module gets
\* the verdict NoTreeshake, whatever the hook verdict and the manifest.
C2_NoTreeshakeAlways ==
  (Resolved /\ Treeshake = TreeshakeBoolean(FALSE)) => Verdict = NoTreeshake

\* C2 (amended): with the global tree-shake policy disabled and no hook verdict
\* present, every module gets the verdict NoTreeshake whatever the manifest says,
\* and the lower layers are not entered.
C2_NoTreeshakeWithoutHook ==
  (Resolved /\ Treeshake = TreeshakeBoolean(FALSE) /\ Hook = None) =>
    side_effects[1] = Committed(NoTreeshake)

C2_Witness ==
  /\ Resolved /\ Treeshake = TreeshakeBoolean(FALSE) /\ Hook = None
  /\ ManifestAnswer = Some(FALSE)
  /\ Verdict = NoTreeshake

----------------------------------------------------------------------------
(* C3 *)

\* C3: with the hook verdict True the statement analysis is never evaluated and
\* the verdict is a side-effecting one, whatever the statement flags.
C3_HookTrueIsLazy ==
  (Resolved /\ Hook = Some("True")) =>
    /\ ~side_effects[1].stmts_analyzed
    /\ Verdict \in {Analyzed(TRUE), UserDefined(TRUE), NoTreeshake}

----------------------------------------------------------------------------
(* C4 *)

\* C4: when the scan reports errors, or the scanner fails, the call returns an
\* error carrying exactly those errors and nothing else: no view, no verdict,
\* and the errors do not show up in the warning sink; a view is returned only
\* when the error list is empty.
C4_FailFast ==
  /\ (scan_result.ok /\ scan_result.errors # <<>>) =>
       /\ result.ret = <<>>
       /\ side_effects = None
       /\ ctx.warnings = warnings0 \o parse_result.warning
       /\ Finished => result = Err(scan_result.errors)
  /\ (scan_result.err # <<>>) =>
       /\ result = Err(scan_result.err)
       /\ ctx.warnings = warnings0 \o parse_result.warning
  /\ (result.kind = "Ok") => ScanSucceeded

C4_Witness ==
  /\ Finished
  /\ scan_result.errors # <<>>
  /\ scan_result.warnings # <<>>
  /\ scan_result.stmt_infos # <<>>
  /\ result = Err(scan_result.errors)

----------------------------------------------------------------------------
(* C5 *)

\* C5: for a module that is not a stylesheet, the hook verdict False gives exactly
\* UserDefined(false) and the hook verdict NoTreeshake gives exactly NoTreeshake,
\* whatever the policy, the manifest and the statements, and neither the glob test
\* nor the statement analysis is evaluated.
C5_HookCommits ==
  (Resolved /\ ~IsCss) =>
    /\ (Hook = Some("False")) => side_effects[1] = Committed(UserDefined(FALSE))
    /\ (Hook = Some("NoTreeshake")) => side_effects[1] = Committed(NoTreeshake)

C5_Witness ==
  /\ Resolved /\ ~IsCss /\ Hook = Some("False")
  /\ ManifestAnswer = Some(TRUE)
  /\ SideEffectingStmts # {}
  /\ PredicateSays(TRUE)
  /\ Verdict = UserDefined(FALSE)

----------------------------------------------------------------------------
(* C6 *)

----------------------------------------------------------------------------
(* C7 *)

\* C7: when parsing succeeds and the scan reports no error, the call returns a
\* view however many warnings there are, and the warning sink is then its
\* previous content followed by the front-end warnings and the scan warnings.
C7_WarningsAccumulate ==
  (Finished /\ ScanSucceeded) =>
    /\ result.kind = "Ok"
    /\ ctx.warnings = warnings0 \o parse_result.warning \o scan_result.warnings

----------------------------------------------------------------------------
(* C8 *)

----------------------------------------------------------------------------
(* C9 *)

\* C9: with no hook verdict and a per-module predicate, a predicate answering
\* false for the stabilized id gives exactly UserDefined(false) whatever the
\* manifest and the statements say, with no lower layer evaluated; a predicate
\* answering true gives the verdict of the type-override, manifest and
\* static-analysis layers.
C9_SkipOnFalse ==
  (Resolved /\ Hook = None) =>
    /\ PredicateSays(FALSE) => side_effects[1] = Committed(UserDefined(FALSE))
    /\ PredicateSays(TRUE) =>
         Verdict = IF IsCss THEN Analyzed(TRUE)
                   ELSE IF ManifestAnswer # None THEN UserDefined(ManifestAnswer[1])
                   ELSE Analyzed(SideEffectingStmts # {})

C9_Witness ==
  /\ Resolved /\ Hook = None /\ PredicateSays(FALSE)
  /\ ctx.resolved_id.id \in Treeshake.module_side_effects
  /\ ManifestAnswer = Some(TRUE)
  /\ SideEffectingStmts # {}
  /\ Verdict = UserDefined(FALSE)

----------------------------------------------------------------------------
(* C10 *)

\* C10: for every successfully scanned module and every combination of hook
\* verdict and global policy, exactly one verdict is computed and the
\* unreachable!() arm is never taken.
C10_ResolverIsTotal ==
  (Finished /\ ScanSucceeded) => (Resolved /\ result.kind # "Panic")

====
